---- MODULE Spec2Model ----
(***************************************************************************)
(* hyx::autoseq<T> (include/hyx_autoseq.hpp): a lazily evaluated,          *)
(* memoizing sequence container.  The model covers the container's         *)
(* private state (cache_, its capacity, formula_), every public operation, *)
(* the fill loop of ensure_calculated one iteration at a time, and the     *)
(* rules used by tests/test_autoseq.cpp (fib, and sum which reads fib).    *)
(*                                                                         *)
(* size_t is IndexBits wide; all index arithmetic is modulo 2^IndexBits.   *)
(* Element values are uint64_t; within the bounds below no element reaches *)
(* 2^64, so element arithmetic is exact.                                   *)
(***************************************************************************)
EXTENDS Integers, Sequences, FiniteSets, TLC

\* ---------------------------------------------------------------- bounds
\* width of size_t in the model
IndexBits == 16
\* largest index a caller asks for (besides the two largest size_t values)
MaxIdx == 2
\* how many ownership transfers (consuming snapshot, move) a run performs
MaxTransfers == 1

\* ------------------------------------------------------- program constants
\* threshold below which a new capacity is rounded up to a power of two
SmallCapLimit == 1024

RECURSIVE Pow2(_)
Pow2(k) == IF k = 0 THEN 1 ELSE 2 * Pow2(k - 1)

\* SIZE_MAX, and arithmetic on size_t
SizeMax == Pow2(IndexBits) - 1
Wrap(x) == (x + Pow2(IndexBits)) % Pow2(IndexBits)

\* std::vector<uint64_t>::max_size(): PTRDIFF_MAX / sizeof(uint64_t)
VecMaxSize == (Pow2(IndexBits - 1) - 1) \div 8

\* std::bit_ceil: the smallest power of two that is >= x
RECURSIVE BitCeilFrom(_, _)
BitCeilFrom(p, x) == IF p >= x THEN p ELSE BitCeilFrom(2 * p, x)
bit_ceil(x) == BitCeilFrom(1, x)

Max(a, b) == IF a >= b THEN a ELSE b

\* ------------------------------------------------------------ containers
\* F and S are fib and sum of the test program, R is a container with a
\* two-parameter rule, B is the target of a move construction.
Seqs == {"F", "S", "R", "B"}

\* what an out-of-bounds read can yield when no check stops it
Garbage == {3}

\* the indices and sizes callers pass
Indices == (0 .. MaxIdx) \cup {SizeMax - 1, SizeMax}
ReserveArgs == {1, MaxIdx + 1, SizeMax}
SliceBounds == 0 .. (MaxIdx + 1)
SliceArgs ==
  {p \in SliceBounds \X SliceBounds :
     \/ p[2] = p[1]
     \/ p[2] = p[1] + 2
     \/ p[1] = p[2] + 1 /\ p[2] \in {0, MaxIdx}}

VARIABLES
  live,      \* the containers that have been constructed
  ndebug,    \* TRUE when the build compiles assert() out (NDEBUG)
  rule,      \* formula_ of each container: the rule it owns, or "moved"
  seeds,     \* the init_values each container's cache started from
  cache,     \* cache_ of each container
  cap,       \* cache_.capacity() of each container
  calls,     \* calls[c][i]: how often formula_ of c was invoked with index i
  inv,       \* the arguments of the latest invocation of formula_ of c
  stack,     \* the active ensure_calculated calls, innermost last
  cur,       \* the public operation in progress
  res,       \* the outcome of the latest completed public operation
  nxfer,     \* ownership transfers so far
  halted     \* "no", or how the process ended: "abort" (assert), "crash"

vars == <<live, ndebug, rule, seeds, cache, cap, calls, inv, stack, cur,
          res, nxfer, halted>>

\* ----------------------------------------------------------- MathContext
\* MathContext{n, h}
Context(n, h) == [index_val |-> n, history |-> h]

\* MathContext::n()
CtxN(ctx) == ctx.index_val

Val(v) == [k |-> "val", v |-> v]
Fail(k) == [k |-> k, v |-> 0]

\* (mutant) no assert() in any build: the read always goes out of bounds
PreconditionFailureUnchecked == {Fail("crash")} \cup {Val(g) : g \in Garbage}

\* a failed assert(): abort in a checked build; with NDEBUG the read goes
\* out of bounds and yields a crash or some value
PreconditionFailure ==
  IF ~ndebug THEN {Fail("abort")}
  ELSE {Fail("crash")} \cup {Val(g) : g \in Garbage}

\* MathContext::last()
CtxLast(ctx) ==
  IF Len(ctx.history) # 0 THEN {Val(ctx.history[Len(ctx.history)])}
  ELSE PreconditionFailure

\* MathContext::operator[](i)
CtxAt(ctx, i) ==
  IF i < Len(ctx.history) THEN {Val(ctx.history[i + 1])}
  ELSE PreconditionFailure

\* a + b on two evaluated operands, either of which may have failed
Plus(x, y) ==
  IF x.k # "val" THEN x ELSE IF y.k # "val" THEN y ELSE Val(x.v + y.v)

PlusAll(X, Y) == {Plus(x, y) : x \in X, y \in Y}

\* ------------------------------------------------------------------ rules
\* (mutant) fib adds the latest element to itself: F[n - 1] + F[n - 1]
FibRuleDoublesLast(ctx) ==
  PlusAll(CtxAt(ctx, Wrap(CtxN(ctx) - 1)), CtxAt(ctx, Wrap(CtxN(ctx) - 1)))

\* fib: [](auto F) { return F[F.n() - 1] + F[F.n() - 2]; }
FibRule(ctx) ==
  PlusAll(CtxAt(ctx, Wrap(CtxN(ctx) - 1)), CtxAt(ctx, Wrap(CtxN(ctx) - 2)))

\* sum: [&fib](auto F) { return F[F.n() - 1] + fib[F.n()]; }
\* the left operand; the right operand fib[F.n()] is an access to container F
SumRuleLeft(ctx) == CtxAt(ctx, Wrap(CtxN(ctx) - 1))

\* the rule the constructor's documentation gives:
\* [](auto F) { return F.last() + F[F.n() - 2]; }
LastRule(ctx) == PlusAll(CtxLast(ctx), CtxAt(ctx, Wrap(CtxN(ctx) - 2)))

\* a rule of the two-parameter shape:
\* [](size_t n, std::span<const T> h) { return h.empty() ? n : h.back() + n; }
RawRule(n, h) == IF Len(h) = 0 THEN {Val(n)} ELSE {Val(h[Len(h)] + n)}

\* make_dispatch: the canonical callable (n, h) -> T for either shape
Dispatch(r, n, h) ==
  IF r = "raw" THEN RawRule(n, h)
  ELSE IF r = "fib" THEN FibRule(Context(n, h))
  ELSE IF r = "last" THEN LastRule(Context(n, h))
  ELSE SumRuleLeft(Context(n, h))

\* ------------------------------------------------------------ std::vector
\* cache_.reserve(n): TRUE when it throws std::length_error
ReserveThrows(n) == n > VecMaxSize

\* (mutant) cache_.reserve(n) makes the capacity exactly n
ReserveCapExact(c, n) == n

\* cache_.reserve(n): the capacity afterwards
ReserveCap(c, n) == Max(cap[c], n)

\* cache_.emplace_back(v): the capacity afterwards
EmplaceCap(c) ==
  IF Len(cache[c]) < cap[c] THEN cap[c] ELSE Max(1, 2 * cap[c])

\* --------------------------------------------------------- ensure_calculated
\* (mutant) needed_size(target_index + 2)
NeededSizeOneMore(target_index) == Wrap(target_index + 2)

\* needed_size(target_index + 1)
NeededSize(target_index) == Wrap(target_index + 1)

\* (mutant) the new capacity is rounded up to a power of two whatever its size
NewCapAlwaysRounds(old_cap, needed_size) ==
  LET grown   == Wrap(old_cap + (old_cap \div 2))
      new_cap == IF grown < needed_size THEN needed_size ELSE grown
  IN  bit_ceil(new_cap)

\* the capacity ensure_calculated asks for when needed_size > old_cap
NewCap(old_cap, needed_size) ==
  LET grown   == Wrap(old_cap + (old_cap \div 2))
      new_cap == IF grown < needed_size THEN needed_size ELSE grown
  IN  IF new_cap < SmallCapLimit THEN bit_ceil(new_cap) ELSE new_cap

\* (mutant) ensure_calculated without its reservation step
EnsureCapKeeps(c, target_index) == cap[c]

\* the capacity after the reservation step of ensure_calculated(target_index)
EnsureCap(c, target_index) ==
  IF NeededSize(target_index) > cap[c]
  THEN ReserveCap(c, NewCap(cap[c], NeededSize(target_index)))
  ELSE cap[c]

\* TRUE when the reservation step throws
EnsureThrows(c, target_index) ==
  /\ NeededSize(target_index) > cap[c]
  /\ ReserveThrows(NewCap(cap[c], NeededSize(target_index)))

\* (mutant) the history view misses the element appended last
FormulaArgsStale(c) ==
  Context(Len(cache[c]), SubSeq(cache[c], 1, Len(cache[c]) - 1))

\* the arguments of formula_(cache_.size(), std::span<const T>(cache_))
FormulaArgs(c) == Context(Len(cache[c]), cache[c])

\* (mutant) the loop stops one element early:
\* while(cache_.size() + 1 < needed_size)
FrameStopsEarly(c, needed) ==
  [c |-> c, needed |-> IF needed > 0 THEN needed - 1 ELSE 0, pending |-> FALSE]

\* one active call ensure_calculated of container c: the loop runs while
\* cache_.size() < needed; pending: formula_ is waiting for another container
Frame(c, needed) == [c |-> c, needed |-> needed, pending |-> FALSE]

\* ------------------------------------------------------------- bookkeeping
NoSpan == [off |-> 0, len |-> 0]

\* the number of invocations a counter f (one entry per index) has seen
RECURSIVE SumRange(_, _, _)
SumRange(f, lo, hi) ==
  IF lo > hi THEN 0
  ELSE IF lo = hi THEN f[lo]
  ELSE LET mid == (lo + hi) \div 2
       IN  SumRange(f, lo, mid) + SumRange(f, mid + 1, hi)

SumCalls(f, i) == SumRange(f, 0, i)

TotalCalls(c) == SumCalls(calls[c], Cardinality(DOMAIN calls[c]) - 1)

\* a public operation on container c with arguments a and b (to: the target
\* of a move), and the state of c when it was called
OpTo(op, c, a, b, to) ==
  [op |-> op, c |-> c, a |-> a, b |-> b, to |-> to,
   pre_cache |-> cache[c], pre_cap |-> cap[c], pre_calls |-> TotalCalls(c)]

Op(op, c, a, b) == OpTo(op, c, a, b, c)

NoOp == [op |-> "none", c |-> "F", a |-> 0, b |-> 0, to |-> "F",
         pre_cache |-> <<>>, pre_cap |-> 0, pre_calls |-> 0]

\* the outcome of a public operation
Result(o, kind, val, span, vec) ==
  [op |-> o.op, c |-> o.c, a |-> o.a, b |-> o.b, to |-> o.to,
   kind |-> kind, val |-> val, span |-> span, vec |-> vec]

NoResult == Result(NoOp, "none", 0, NoSpan, <<>>)

\* the caller keeps the vector a snapshot() const & returned while it goes on
Kept == IF res.op = "snapshot" THEN res ELSE NoResult

\* no operation is running and the caller is done with the latest outcome
Idle == halted = "no" /\ stack = <<>> /\ cur.op = "none" /\ res = Kept

\* the elements a span refers to
Deref(c, span) == SubSeq(cache[c], span.off + 1, span.off + span.len)

\* -------------------------------------------------------------------- Init
\* autoseq(Gen&& g, InitArgs&&... init_values)
Constructed(c, r, init_values) ==
  [rule |-> r, seeds |-> init_values, cache |-> init_values,
   cap |-> Len(init_values)]

Unconstructed == [rule |-> "moved", seeds |-> <<>>, cache |-> <<>>, cap |-> 0]

\* the programs: the test's fib and sum, or one container with a
\* two-parameter rule and zero, one or two seeds
Programs ==
  {[c \in Seqs |-> IF c = "F" THEN Constructed(c, "fib", <<0, 1>>)
                   ELSE IF c = "S" THEN Constructed(c, "sum", <<0>>)
                   ELSE Unconstructed]}
  \cup
  {[c \in Seqs |-> IF c = "R" THEN Constructed(c, "raw", s)
                   ELSE Unconstructed] : s \in {<<>>, <<4, 6>>}}

Init ==
  /\ ndebug \in BOOLEAN
  /\ \E p \in Programs :
       /\ live = {c \in Seqs : p[c].rule # "moved"}
       /\ rule = [c \in Seqs |-> p[c].rule]
       /\ seeds = [c \in Seqs |-> p[c].seeds]
       /\ cache = [c \in Seqs |-> p[c].cache]
       /\ cap = [c \in Seqs |-> p[c].cap]
  /\ calls = [c \in Seqs |-> [i \in 0 .. MaxIdx |-> 0]]
  /\ inv = [c \in Seqs |-> Context(0, <<>>)]
  /\ stack = <<>>
  /\ cur = NoOp
  /\ res = NoResult
  /\ nxfer = 0
  /\ halted = "no"

\* the process ends (k = "abort" or "crash"): no operation is in progress any
\* more and none returns
Halt(k) ==
  /\ halted' = k
  /\ stack' = <<>>
  /\ cur' = NoOp
  /\ res' = NoResult

\* a public operation returns (or throws) r to its caller
Done(r) ==
  /\ res' = r
  /\ stack' = <<>>
  /\ cur' = NoOp
  /\ halted' = halted

\* ------------------------------------------------- finishing an operation
\* what a public operation does once ensure_calculated has returned
Finish(o) ==
  LET c == o.c
      n == o.a
  IN  CASE o.op = "index" ->
             \* return cache_[n]: unchecked, out of bounds when n >= size()
             IF n < Len(cache[c])
             THEN Done(Result(o, "ok", cache[c][n + 1], NoSpan, <<>>))
             ELSE \/ Halt("crash")
                  \/ \E g \in Garbage : Done(Result(o, "ub", g, NoSpan, <<>>))
        [] o.op = "at" ->
             \* return cache_.at(n): throws std::out_of_range
             IF n < Len(cache[c])
             THEN Done(Result(o, "ok", cache[c][n + 1], NoSpan, <<>>))
             ELSE Done(Result(o, "out_of_range", 0, NoSpan, <<>>))
        [] o.op = "prefetch" ->
             Done(Result(o, "ok", 0, NoSpan, <<>>))
        [] o.op = "slice" ->
             \* std::span<const T>(cache_.data() + start, end - start)
             Done(Result(o, IF o.a <= o.b THEN "ok" ELSE "ub", 0,
                         [off |-> o.a, len |-> Wrap(o.b - o.a)], <<>>))

\* ensure_calculated(target_index) up to its loop, on behalf of operation o
Begin(o, target_index) ==
  LET c == o.c
  IN  IF target_index < Len(cache[c])
      THEN /\ Finish(o)
           /\ cap' = cap
      ELSE IF EnsureThrows(c, target_index)
      THEN /\ Done(Result(o, "length_error", 0, NoSpan, <<>>))
           /\ cap' = cap
      ELSE /\ cap' = [cap EXCEPT ![c] = EnsureCap(c, target_index)]
           /\ IF Len(cache[c]) < NeededSize(target_index)
              THEN /\ stack' = <<Frame(c, NeededSize(target_index))>>
                   /\ cur' = o
                   /\ res' = Kept
                   /\ halted' = halted
              ELSE Finish(o)

\* -------------------------------------------------------- public operations
\* operator[](n), at(n), prefetch_up_to(n)
Access(op, c, n) ==
  /\ Idle
  /\ c \in live
  /\ Begin(Op(op, c, n, 0), n)
  /\ UNCHANGED <<live, ndebug, rule, seeds, cache, calls, inv, nxfer>>

\* (mutant) reserve(n) calls cache_.resize(n) and drops elements beyond n
ReserveResizes(c, n) ==
  /\ Idle
  /\ c \in live
  /\ ~ReserveThrows(n)
  /\ Done(Result(Op("reserve", c, n, 0), "ok", 0, NoSpan, <<>>))
  /\ cap' = [cap EXCEPT ![c] = ReserveCap(c, n)]
  /\ cache' = [cache EXCEPT ![c] = SubSeq(@, 1, IF n < Len(@) THEN n ELSE Len(@))]
  /\ UNCHANGED <<live, ndebug, rule, seeds, calls, inv, nxfer>>

\* reserve(n)
Reserve(c, n) ==
  /\ Idle
  /\ c \in live
  /\ IF ReserveThrows(n)
     THEN /\ Done(Result(Op("reserve", c, n, 0), "length_error", 0,
                         NoSpan, <<>>))
          /\ cap' = cap
     ELSE /\ Done(Result(Op("reserve", c, n, 0), "ok", 0, NoSpan, <<>>))
          /\ cap' = [cap EXCEPT ![c] = ReserveCap(c, n)]
  /\ UNCHANGED <<live, ndebug, rule, seeds, cache, calls, inv, nxfer>>

\* (mutant) ensure_calculated(start)
SliceTargetStart(start, end) == start

\* the index operator[](start, end) passes to ensure_calculated
SliceTarget(start, end) == Wrap(end - 1)

\* (mutant) operator[](start, end) without the early return for start == end
SliceAlwaysEnsures(c, start, end) ==
  /\ Idle
  /\ c \in live
  /\ IF start > end /\ ~ndebug
     THEN /\ Halt("abort")
          /\ cap' = cap
     ELSE Begin(Op("slice", c, start, end), SliceTarget(start, end))
  /\ UNCHANGED <<live, ndebug, rule, seeds, cache, calls, inv, nxfer>>

\* operator[](start, end)
Slice(c, start, end) ==
  /\ Idle
  /\ c \in live
  /\ IF start > end /\ ~ndebug
     THEN \* assert(start <= end) fails
          /\ Halt("abort")
          /\ cap' = cap
     ELSE IF start = end
     THEN /\ Done(Result(Op("slice", c, start, end), "ok", 0, NoSpan, <<>>))
          /\ cap' = cap
     ELSE Begin(Op("slice", c, start, end), SliceTarget(start, end))
  /\ UNCHANGED <<live, ndebug, rule, seeds, cache, calls, inv, nxfer>>

\* view()
View(c) ==
  /\ Idle
  /\ c \in live
  /\ Done(Result(Op("view", c, 0, 0), "ok", 0,
                 [off |-> 0, len |-> Len(cache[c])], <<>>))
  /\ UNCHANGED <<live, ndebug, rule, seeds, cache, cap, calls, inv, nxfer>>

\* size()
Size(c) ==
  /\ Idle
  /\ c \in live
  /\ Done(Result(Op("size", c, 0, 0), "ok", Len(cache[c]), NoSpan, <<>>))
  /\ UNCHANGED <<live, ndebug, rule, seeds, cache, cap, calls, inv, nxfer>>

\* (mutant) the iteration starts at the second element
VisitFromSecond(c, i) ==
  IF i = 0 THEN SubSeq(cache[c], 2, Len(cache[c]))
  ELSE SubSeq(cache[c], i + 1, Len(cache[c]))

\* the elements for (it = begin(); it != end(); ++it) visits, from position i
RECURSIVE Visit(_, _)
Visit(c, i) ==
  IF i = Len(cache[c]) THEN <<>> ELSE <<cache[c][i + 1]>> \o Visit(c, i + 1)

\* a full iteration from begin() to end()
Iterate(c) ==
  /\ Idle
  /\ c \in live
  /\ Done(Result(Op("iterate", c, 0, 0), "ok", 0, NoSpan, Visit(c, 0)))
  /\ UNCHANGED <<live, ndebug, rule, seeds, cache, cap, calls, inv, nxfer>>

\* return cache_: the vector copy-constructed from cache_
CopyOf(c) == cache[c]

\* (mutant) snapshot() const & moves cache_ out like the && overload
SnapshotCopyMoves(c) ==
  /\ Idle
  /\ c \in live
  /\ Done(Result(Op("snapshot", c, 0, 0), "ok", 0, NoSpan, CopyOf(c)))
  /\ cache' = [cache EXCEPT ![c] = <<>>]
  /\ cap' = [cap EXCEPT ![c] = 0]
  /\ UNCHANGED <<live, ndebug, rule, seeds, calls, inv, nxfer>>

\* snapshot() const &
SnapshotCopy(c) ==
  /\ Idle
  /\ c \in live
  /\ Done(Result(Op("snapshot", c, 0, 0), "ok", 0, NoSpan, CopyOf(c)))
  /\ UNCHANGED <<live, ndebug, rule, seeds, cache, cap, calls, inv, nxfer>>

\* return std::move(cache_): the vector move-constructed from cache_
MovedOut(c) == cache[c]

\* (mutant) cache_ keeps its elements after the move
MovedFromKeeps(c) == cache[c]

\* cache_ after a vector has been move-constructed from it
MovedFrom(c) == <<>>

\* snapshot() &&
SnapshotMove(c) ==
  /\ Idle
  /\ c \in live
  /\ nxfer < MaxTransfers
  /\ Done(Result(Op("snapshot_move", c, 0, 0), "ok", 0, NoSpan, MovedOut(c)))
  /\ cache' = [cache EXCEPT ![c] = MovedFrom(c)]
  /\ cap' = [cap EXCEPT ![c] = 0]
  /\ nxfer' = nxfer + 1
  /\ UNCHANGED <<live, ndebug, rule, seeds, calls, inv>>

\* the members after autoseq(autoseq&&) / operator=(autoseq&&) from a into b;
\* the invocation counter and the latest arguments belong to the rule and
\* travel with it
MoveMembers(a, b) ==
  /\ cache' = [cache EXCEPT ![b] = MovedOut(a), ![a] = MovedFrom(a)]
  /\ cap' = [cap EXCEPT ![b] = cap[a], ![a] = 0]
  /\ rule' = [rule EXCEPT ![b] = rule[a], ![a] = "moved"]
  /\ seeds' = [seeds EXCEPT ![b] = seeds[a], ![a] = <<>>]
  /\ calls' = [calls EXCEPT ![b] = calls[a], ![a] = [i \in 0 .. MaxIdx |-> 0]]
  /\ inv' = [inv EXCEPT ![b] = inv[a], ![a] = Context(0, <<>>)]

\* autoseq b(std::move(a))
MoveConstruct(a, b) ==
  /\ Idle
  /\ a \in live
  /\ b \notin live
  /\ nxfer < MaxTransfers
  /\ MoveMembers(a, b)
  /\ live' = live \cup {b}
  /\ Done(Result(OpTo("move", a, 0, 0, b), "ok", 0, NoSpan, <<>>))
  /\ nxfer' = nxfer + 1
  /\ UNCHANGED ndebug

\* b = std::move(a).  A sum rule is not moved into F: it would read F while
\* F fills itself, which the container does not support.
MoveAssign(a, b) ==
  /\ Idle
  /\ a \in live
  /\ b \in live
  /\ a # b
  /\ ~(b = "F" /\ rule[a] = "sum")
  /\ nxfer < MaxTransfers
  /\ MoveMembers(a, b)
  /\ Done(Result(OpTo("move_assign", a, 0, 0, b), "ok", 0, NoSpan, <<>>))
  /\ nxfer' = nxfer + 1
  /\ UNCHANGED <<live, ndebug>>

\* the caller has used what the operation returned (every accessor is
\* [[nodiscard]]) and goes on to its next statement
UseResult ==
  /\ halted = "no"
  /\ stack = <<>>
  /\ res # Kept
  /\ res' = Kept
  /\ UNCHANGED <<live, ndebug, rule, seeds, cache, cap, calls, inv, stack,
                 cur, nxfer, halted>>

\* ---------------------------------------------------------- the fill loop
Top == stack[Len(stack)]

\* (mutant) the result replaces the last element: cache_.back() = next_val
EmplaceBackOverwrites(c, out, st) ==
  IF out.k = "val"
  THEN /\ cache' = [cache EXCEPT ![c] =
                      IF Len(@) = 0 THEN <<out.v>>
                      ELSE Append(SubSeq(@, 1, Len(@) - 1), out.v)]
       /\ cap' = [cap EXCEPT ![c] = EmplaceCap(c)]
       /\ stack' = st
       /\ UNCHANGED <<cur, res, halted>>
  ELSE /\ Halt(out.k)
       /\ UNCHANGED <<cache, cap>>

\* cache_.emplace_back(std::move(next_val)) with the loop continuing on the
\* call stack st, or the end of the process when the formula produced no value
EmplaceBack(c, out, st) ==
  IF out.k = "val"
  THEN /\ cache' = [cache EXCEPT ![c] = Append(@, out.v)]
       /\ cap' = [cap EXCEPT ![c] = EmplaceCap(c)]
       /\ stack' = st
       /\ UNCHANGED <<cur, res, halted>>
  ELSE /\ Halt(out.k)
       /\ UNCHANGED <<cache, cap>>

\* (mutant) the sum rule reads fib's cache unchecked instead of fib[n]: no
\* nested ensure_calculated
InvokeSkipsCompanion ==
  /\ halted = "no"
  /\ stack # <<>>
  /\ ~Top.pending
  /\ Len(cache[Top.c]) < Top.needed
  /\ LET c    == Top.c
         args == FormulaArgs(c)
         n    == args.index_val
     IN  IF rule[c] = "moved"
         THEN /\ Halt("crash")
              /\ UNCHANGED <<cache, cap, calls, inv>>
         ELSE /\ calls' = [calls EXCEPT ![c][n] = @ + 1]
              /\ inv' = [inv EXCEPT ![c] = args]
              /\ IF rule[c] # "sum"
                 THEN \E out \in Dispatch(rule[c], n, args.history) :
                        EmplaceBack(c, out, stack)
                 ELSE \E out \in PlusAll(Dispatch(rule[c], n, args.history),
                                         IF n < Len(cache["F"])
                                         THEN {Val(cache["F"][n + 1])}
                                         ELSE {Val(g) : g \in Garbage}) :
                        EmplaceBack(c, out, stack)
  /\ UNCHANGED <<live, ndebug, rule, seeds, nxfer>>

\* one iteration of while(cache_.size() < needed_size): invoke formula_ and
\* append its result.  The sum rule reads fib[n] first when F has to grow;
\* its own invocation then stays pending until F's fill loop has returned.
Invoke ==
  /\ halted = "no"
  /\ stack # <<>>
  /\ ~Top.pending
  /\ Len(cache[Top.c]) < Top.needed
  /\ LET c    == Top.c
         args == FormulaArgs(c)
         n    == args.index_val
     IN  IF rule[c] = "moved"
         THEN \* formula_ holds no target
              /\ Halt("crash")
              /\ UNCHANGED <<cache, cap, calls, inv>>
         ELSE /\ calls' = [calls EXCEPT ![c][n] = @ + 1]
              /\ inv' = [inv EXCEPT ![c] = args]
              /\ IF rule[c] # "sum"
                 THEN \E out \in Dispatch(rule[c], n, args.history) :
                        EmplaceBack(c, out, stack)
                 ELSE IF n < Len(cache["F"])
                 THEN \E out \in PlusAll(Dispatch(rule[c], n, args.history),
                                         {Val(cache["F"][n + 1])}) :
                        EmplaceBack(c, out, stack)
                 ELSE \/ \* fib[n] is evaluated first: F.ensure_calculated(n)
                         /\ cap' = [cap EXCEPT !["F"] = EnsureCap("F", n)]
                         /\ stack' = [stack EXCEPT ![Len(stack)].pending = TRUE]
                                       \o <<Frame("F", NeededSize(n))>>
                         /\ UNCHANGED <<cache, cur, res, halted>>
                      \/ \* F[n - 1] is evaluated first and fails
                         /\ \E out \in Dispatch(rule[c], n, args.history) :
                              /\ out.k # "val"
                              /\ Halt(out.k)
                         /\ UNCHANGED <<cache, cap>>
  /\ UNCHANGED <<live, ndebug, rule, seeds, nxfer>>

\* ensure_calculated returns: to the rule that called fib[n], or to the
\* public operation
Return ==
  /\ halted = "no"
  /\ stack # <<>>
  /\ ~Top.pending
  /\ ~(Len(cache[Top.c]) < Top.needed)
  /\ IF Len(stack) > 1
     THEN LET outer == stack[Len(stack) - 1]
              ctx   == inv[outer.c]
              n     == CtxN(ctx)
          IN  \E out \in PlusAll(Dispatch(rule[outer.c], n, ctx.history),
                                 {Val(cache["F"][n + 1])}) :
                 EmplaceBack(outer.c, out,
                             [SubSeq(stack, 1, Len(stack) - 1)
                                EXCEPT ![Len(stack) - 1].pending = FALSE])
     ELSE /\ Finish(cur)
          /\ UNCHANGED <<cache, cap>>
  /\ UNCHANGED <<live, ndebug, rule, seeds, calls, inv, nxfer>>

Next ==
  \/ \E op \in {"index", "at", "prefetch"}, c \in Seqs, n \in Indices :
       Access(op, c, n)
  \/ \E c \in Seqs, n \in ReserveArgs : Reserve(c, n)
  \/ \E c \in Seqs, p \in SliceArgs : Slice(c, p[1], p[2])
  \/ \E c \in Seqs : View(c)
  \/ \E c \in Seqs : Size(c)
  \/ \E c \in Seqs : Iterate(c)
  \/ \E c \in Seqs : SnapshotCopy(c)
  \/ \E c \in Seqs : SnapshotMove(c)
  \/ \E a \in Seqs : MoveConstruct(a, "B")
  \/ \E a \in Seqs, b \in Seqs : MoveAssign(a, b)
  \/ UseResult
  \/ Invoke
  \/ Return

Spec == Init /\ [][Next]_vars

\* ------------------------------------------------------- the test program
\* the arguments tests/test_autoseq.cpp passes
TestReserve == 100
TestPrefetch == 20
TestIndex == 5
TestAt == 10
TestSlice == <<3, 8>>
\* the indices of fib a caller reads
TestFibLast == 10

\* fib and sum as main() constructs them
TestInit ==
  /\ ndebug \in BOOLEAN
  /\ LET p == [c \in Seqs |-> IF c = "F" THEN Constructed(c, "fib", <<0, 1>>)
                              ELSE IF c = "S" THEN Constructed(c, "sum", <<0>>)
                              ELSE Unconstructed]
     IN  /\ live = {"F", "S"}
         /\ rule = [c \in Seqs |-> p[c].rule]
         /\ seeds = [c \in Seqs |-> p[c].seeds]
         /\ cache = [c \in Seqs |-> p[c].cache]
         /\ cap = [c \in Seqs |-> p[c].cap]
  /\ calls = [c \in Seqs |-> [i \in 0 .. TestPrefetch |-> 0]]
  /\ inv = [c \in Seqs |-> Context(0, <<>>)]
  /\ stack = <<>>
  /\ cur = NoOp
  /\ res = NoResult
  /\ nxfer = 0
  /\ halted = "no"

\* the statements of main(), in any order and any number of times
TestNext ==
  \/ \E n \in 0 .. TestFibLast : Access("index", "F", n)
  \/ Access("index", "S", TestIndex)
  \/ Access("at", "S", TestAt)
  \/ Slice("S", TestSlice[1], TestSlice[2])
  \/ Reserve("S", TestReserve)
  \/ Access("prefetch", "S", TestPrefetch)
  \/ Size("S")
  \/ UseResult
  \/ Invoke
  \/ Return

TestSpec == TestInit /\ [][TestNext]_vars

\* ------------------------------------------------------ the growth policy
\* a container with a two-parameter rule and no seeds whose cache is full
\* (size() = capacity() = k, after reserve(k) and prefetch_up_to(k - 1)),
\* for k small and k around the capacities whose growth crosses SmallCapLimit
GrowthSmallMax == 9
GrowthNear == (2 * SmallCapLimit) \div 3
GrowthSizes ==
  (0 .. GrowthSmallMax)
    \cup ((GrowthNear - 1) .. (GrowthNear + 1))
    \cup ((SmallCapLimit - 2) .. (SmallCapLimit + 1))

\* how far beyond size() a caller asks, and the indices it asks for
GrowthSteps == {0, 1, 5}
GrowthMaxIdx == SmallCapLimit + 8
GrowthTargets == {k + d : k \in GrowthSizes, d \in GrowthSteps}

\* the elements the rule RawRule has produced after k invocations from an
\* empty cache: 0, 1, 3, 6, ...
RawPrefix(k) == [i \in 1 .. k |-> ((i - 1) * i) \div 2]

GrowthInit ==
  /\ ndebug \in BOOLEAN
  /\ live = {"R"}
  /\ rule = [c \in Seqs |-> IF c = "R" THEN "raw" ELSE "moved"]
  /\ seeds = [c \in Seqs |-> <<>>]
  /\ \E k \in GrowthSizes :
       /\ cache = [c \in Seqs |-> IF c = "R" THEN RawPrefix(k) ELSE <<>>]
       /\ cap = [c \in Seqs |-> IF c = "R" THEN k ELSE 0]
       /\ calls = [c \in Seqs |->
                     IF c = "R"
                     THEN [i \in 0 .. GrowthMaxIdx |-> IF i < k THEN 1 ELSE 0]
                     ELSE [i \in 0 .. MaxIdx |-> 0]]
       /\ inv = [c \in Seqs |->
                   IF c = "R" /\ k > 0
                   THEN Context(k - 1, RawPrefix(k - 1))
                   ELSE Context(0, <<>>)]
  /\ stack = <<>>
  /\ cur = NoOp
  /\ res = NoResult
  /\ nxfer = 0
  /\ halted = "no"

\* accesses at or a little beyond the current size
GrowthNext ==
  \/ \E op \in {"index", "prefetch"}, d \in GrowthSteps :
       /\ Len(cache["R"]) + d \in GrowthTargets
       /\ Access(op, "R", Len(cache["R"]) + d)
  \/ UseResult
  \/ Invoke
  \/ Return

GrowthSpec == GrowthInit /\ [][GrowthNext]_vars

\* ------------------------------------------------- malformed recurrences
\* one container with a context-shape rule that reads two elements back,
\* constructed with too few seeds or with enough
ShortSeeds == {<<>>, <<1>>, <<0, 1>>}

ShortInit ==
  /\ ndebug \in BOOLEAN
  /\ \E r \in {"fib", "last"}, s \in ShortSeeds :
       LET p == [c \in Seqs |-> IF c = "F" THEN Constructed(c, r, s)
                                ELSE Unconstructed]
       IN  /\ live = {"F"}
           /\ rule = [c \in Seqs |-> p[c].rule]
           /\ seeds = [c \in Seqs |-> p[c].seeds]
           /\ cache = [c \in Seqs |-> p[c].cache]
           /\ cap = [c \in Seqs |-> p[c].cap]
  /\ calls = [c \in Seqs |-> [i \in 0 .. MaxIdx |-> 0]]
  /\ inv = [c \in Seqs |-> Context(0, <<>>)]
  /\ stack = <<>>
  /\ cur = NoOp
  /\ res = NoResult
  /\ nxfer = 0
  /\ halted = "no"

ShortNext ==
  \/ \E op \in {"index", "at", "prefetch"}, n \in 0 .. MaxIdx :
       Access(op, "F", n)
  \/ \E p \in SliceArgs : Slice("F", p[1], p[2])
  \/ Size("F")
  \/ UseResult
  \/ Invoke
  \/ Return

ShortSpec == ShortInit /\ [][ShortNext]_vars

\* ===================================================================
\* Properties
\* ===================================================================
AccessOps == {"index", "at", "prefetch"}

\* the state of container c when the operation that completes in this step
\* was called
PreCache(c) == IF cur.op # "none" THEN cur.pre_cache ELSE cache[c]
PreCap(c) == IF cur.op # "none" THEN cur.pre_cap ELSE cap[c]
PreCalls(c) == IF cur.op # "none" THEN cur.pre_calls ELSE TotalCalls(c)

IsPrefix(s, t) == Len(s) <= Len(t) /\ SubSeq(t, 1, Len(s)) = s

\* what view() returns
ViewSpan(c) == [off |-> 0, len |-> Len(cache[c])]

\* the sequence the seeds sd and rule r define, up to length len:
\* fib F[n] = F[n-1] + F[n-2]; sum S[n] = S[n-1] + F[n] over fib seeded 0, 1;
\* raw a[n] = a[n-1] + n, a[0] = 0 when there is no seed
RECURSIVE Defined(_, _, _)
Defined(r, sd, len) ==
  IF len <= Len(sd) THEN SubSeq(sd, 1, len)
  ELSE LET p == Defined(r, sd, len - 1)
           n == len - 1
       IN  Append(p,
             IF r = "fib" THEN p[n] + p[n - 1]
             ELSE IF r = "sum" THEN p[n] + Defined("fib", <<0, 1>>, n + 1)[n + 1]
             ELSE IF n = 0 THEN 0 ELSE p[n] + n)

\* C1 (as claimed): memoize-once.  Over any sequence of public operations on
\* a container, its formula is invoked at most once for each index.
MemoizeOnce ==
  \A c \in Seqs : \A i \in 0 .. MaxIdx : calls[c][i] <= 1

\* C2: order law.  Every invocation of the formula of c for index i gets
\* index argument i and a history of length exactly i that is cache[0..i-1]
\* (n() = i, operator[](j) = cache[j] for j < i, last() = cache[i-1] when
\* i >= 1), and every element appended at position i is the result of the
\* invocation for index i.
OrderLaw ==
  [][nxfer' = nxfer =>
       \A c \in Seqs :
         /\ \A i \in 0 .. MaxIdx :
              calls'[c][i] # calls[c][i] =>
                LET ctx == inv'[c]
                IN  /\ CtxN(ctx) = i
                    /\ Len(ctx.history) = i
                    /\ ctx.history = cache[c]
                    /\ \A j \in 0 .. (i - 1) :
                         CtxAt(ctx, j) = {Val(cache[c][j + 1])}
                    /\ i >= 1 => CtxLast(ctx) = {Val(cache[c][i])}
         /\ Len(cache'[c]) > Len(cache[c]) =>
              /\ Len(cache'[c]) = Len(cache[c]) + 1
              /\ CtxN(inv'[c]) = Len(cache[c])
              /\ inv'[c].history = cache[c]]_vars

\* C2 witness: the formula has been invoked for index 2 with a two-element
\* history and its result appended.
OrderLawWitness ==
  \E c \in Seqs :
    /\ calls[c][2] = 1
    /\ inv[c] = Context(2, SubSeq(cache[c], 1, 2))
    /\ Len(cache[c]) = 3

\* C3 (as claimed): the only operation after which size() is smaller than
\* before is a consuming snapshot() of that container.
SizeShrinksOnlyBySnapshot ==
  [][\A c \in Seqs :
       Len(cache'[c]) < Len(cache[c]) =>
         res'.op = "snapshot_move" /\ res'.c = c]_vars

\* C3 (amended): size() never decreases from one step to the next, except
\* for the container a consuming snapshot() is called on, the container a
\* move construction or move assignment takes from, and the container a
\* move assignment assigns to.
SizeShrinksOnlyByTransfer ==
  [][\A c \in Seqs :
       Len(cache'[c]) < Len(cache[c]) =>
         \/ res'.op = "snapshot_move" /\ res'.c = c
         \/ res'.op = "move" /\ res'.c = c
         \/ res'.op = "move_assign" /\ c \in {res'.c, res'.to}]_vars

\* C3 witness: a move has emptied its source, which had computed elements.
SizeShrinksWitness ==
  /\ res.op \in {"move", "move_assign"}
  /\ Len(cache[res.c]) = 0
  /\ Len(cache[res.to]) > Len(seeds[res.to])

\* C4 (as claimed): provenance.  For every constructed container that owns
\* a rule, cache[i] is the i-th seed for i < k and the rule's value on
\* cache[0..i-1] for i >= k, so the cache is a prefix of the sequence the
\* seeds and the rule define; before any invocation size() = k.
ProvenanceI1 ==
  \A c \in live :
    rule[c] # "moved" =>
      /\ cache[c] = Defined(rule[c], seeds[c], Len(cache[c]))
      /\ TotalCalls(c) = 0 /\ nxfer = 0 => Len(cache[c]) = Len(seeds[c])

\* C5: write-once.  Every step keeps each container's elements where they
\* are (the cache before the step is a prefix of the cache after it), except
\* for the containers an ownership transfer (consuming snapshot, move) is
\* made from or to.
WriteOnce ==
  [][\A c \in Seqs :
       \/ IsPrefix(cache[c], cache'[c])
       \/ nxfer' # nxfer /\ c \in {res'.c, res'.to}]_vars

\* C5 witness: a container that has computed elements beyond its seeds has
\* had its capacity raised by reserve(n).
WriteOnceWitness ==
  /\ res.op = "reserve"
  /\ res.kind = "ok"
  /\ cap[res.c] = res.a
  /\ Len(cache[res.c]) > Len(seeds[res.c])
  /\ nxfer = 0

\* C6 (as claimed): whenever operator[](n), at(n) or prefetch_up_to(n)
\* returns or fails its bounds check, for any n of the index type,
\* size() > n and the element was read in range.
EnsurePostcondition ==
  res.op \in AccessOps /\ res.kind # "length_error" =>
    Len(cache[res.c]) > res.a /\ res.kind = "ok"

\* C7: laziness is exact.  When operator[](n), at(n) or prefetch_up_to(n)
\* with n < SIZE_MAX returns, on a container that had size s when it was
\* called, the size is max(s, n + 1); and when n < s the elements, the
\* capacity and the number of formula invocations are what they were.
LazinessExact ==
  [][(res' # res /\ res'.op \in AccessOps /\ res'.kind = "ok"
        /\ res'.a < SizeMax) =>
       LET c == res'.c
           n == res'.a
           s == Len(PreCache(c))
       IN  /\ Len(cache'[c]) = Max(s, n + 1)
           /\ n < s =>
                /\ cache'[c] = PreCache(c)
                /\ cap'[c] = PreCap(c)
                /\ SumCalls(calls'[c], MaxIdx) = PreCalls(c)]_vars

\* C7 witness: prefetch_up_to(n) has returned after extending the cache by
\* two or more elements to exactly n + 1.
LazinessWitness ==
  /\ res.op = "prefetch"
  /\ res.kind = "ok"
  /\ Len(cache[res.c]) = res.a + 1
  /\ TotalCalls(res.c) >= 2
  /\ nxfer = 0

\* C8: slice(a, b) with a < b returns a view of length b - a whose j-th
\* element is cache[a + j], the same elements as view()[a:b] taken after
\* the call, and size() >= b afterwards.
SliceCorrect ==
  res.op = "slice" /\ res.a < res.b =>
    /\ res.kind = "ok"
    /\ res.span.len = res.b - res.a
    /\ Len(cache[res.c]) >= res.b
    /\ Deref(res.c, res.span)
         = SubSeq(Deref(res.c, ViewSpan(res.c)), res.a + 1, res.b)
    /\ \A j \in 0 .. (res.b - res.a - 1) :
         Deref(res.c, res.span)[j + 1] = cache[res.c][res.a + j + 1]

\* C8 witness: slice(1, 3) has returned after computing the elements it
\* covers.
SliceWitness ==
  /\ res.op = "slice"
  /\ res.a = 1
  /\ res.b = 3
  /\ Len(cache[res.c]) = 3
  /\ TotalCalls(res.c) >= 1

\* C9: a non-consuming snapshot() returns the elements view() covers,
\* invokes no formula and changes no container's elements or capacity; and
\* while the container then grows, the returned vector stays as it was.
SnapshotCopyFrame ==
  [][/\ (res' # res /\ res'.op = "snapshot") =>
          /\ res'.vec = Deref(res'.c, ViewSpan(res'.c))
          /\ cache' = cache
          /\ cap' = cap
          /\ calls' = calls
     /\ (res.op = "snapshot" /\ stack # <<>>
           /\ Len(cache'[res.c]) > Len(cache[res.c])) =>
          res' = res]_vars

\* C9 witness: the caller holds a snapshot of a container that has grown
\* since.
SnapshotCopyWitness ==
  /\ res.op = "snapshot"
  /\ Len(res.vec) > 0
  /\ Len(cache[res.c]) > Len(res.vec)

\* C10: a consuming snapshot() returns the vector a non-consuming
\* snapshot() returns in the same state, and leaves size() = 0.
SnapshotMoveDual ==
  [][(res' # res /\ res'.op = "snapshot_move") =>
       /\ res'.vec = CopyOf(res'.c)
       /\ Len(cache'[res'.c]) = 0]_vars

\* C10 witness: a consuming snapshot() has returned three elements, one of
\* them computed, and the source is empty.
SnapshotMoveWitness ==
  /\ res.op = "snapshot_move"
  /\ Len(res.vec) = 3
  /\ Len(cache[res.c]) = 0

\* the values the specification lists for fib at indices 0..10
FibExpected == <<0, 1, 1, 2, 3, 5, 8, 13, 21, 34, 55>>

\* C11: the concrete scenario.  With fib seeded 0, 1 and sum seeded 0, in
\* whatever order the accesses are made: fib[i] for i in 0..10 is
\* 0,1,1,2,3,5,8,13,21,34,55; sum[5] = 12; sum.at(10) = 143; the slice
\* sum[3, 8) is 4,7,12,20,33; and once reserve(100) and prefetch_up_to(20)
\* have both been made, size() is 21.
ConcreteScenario ==
  /\ res.op = "index" /\ res.c = "F" =>
       res.kind = "ok" /\ res.val = FibExpected[res.a + 1]
  /\ res.op = "index" /\ res.c = "S" =>
       res.kind = "ok" /\ res.a = 5 /\ res.val = 12
  /\ res.op = "at" =>
       res.kind = "ok" /\ res.c = "S" /\ res.a = 10 /\ res.val = 143
  /\ res.op = "slice" =>
       /\ res.kind = "ok"
       /\ <<res.a, res.b>> = <<3, 8>>
       /\ Deref("S", res.span) = <<4, 7, 12, 20, 33>>
  /\ res.op = "prefetch" => res.kind = "ok" /\ Len(cache["S"]) = 21
  /\ res.op = "size" /\ cap["S"] >= 100 /\ calls["S"][20] > 0 => res.val = 21

\* C11 witness: size() has returned 21 after reserve(100) and
\* prefetch_up_to(20), which made sum and fib compute up to index 20.
ConcreteScenarioWitness ==
  /\ res.op = "size"
  /\ res.val = 21
  /\ cap["S"] = 100
  /\ Len(cache["F"]) = 21
  /\ cache["S"][11] = 143

\* C12: reserve(n) is a pure capacity hint.  The step in which reserve(n)
\* completes invokes no formula, leaves every container's elements (hence
\* size()) as they were and the other containers' capacity too, and when it
\* returns the capacity of its container is at least max(old capacity, n).
ReservePure ==
  [][(res' # res /\ res'.op = "reserve") =>
       LET c == res'.c
           n == res'.a
       IN  /\ calls' = calls
           /\ cache' = cache
           /\ \A d \in Seqs \ {c} : cap'[d] = cap[d]
           /\ res'.kind = "ok" => cap'[c] >= Max(cap[c], n)
           /\ res'.kind # "ok" => cap'[c] = cap[c]]_vars

\* C12 witness: reserve(n) has returned on a container that has computed
\* elements, with n above its size, and the capacity is n.
ReservePureWitness ==
  /\ res.op = "reserve"
  /\ res.kind = "ok"
  /\ res.a > Len(cache[res.c])
  /\ cap[res.c] = res.a
  /\ TotalCalls(res.c) >= 1

\* C13: read-only observers do not compute.  The step in which view(),
\* size() or a full iteration completes invokes no formula and leaves
\* elements and capacities unchanged; view() covers exactly [0, size()),
\* size() is the number of elements, and the iteration visits the elements
\* at indices 0 .. size() - 1 in order.
ObserversPure ==
  [][(res' # res /\ res'.op \in {"view", "size", "iterate"}) =>
       LET c == res'.c
       IN  /\ calls' = calls
           /\ cache' = cache
           /\ cap' = cap
           /\ res'.op = "view" =>
                /\ res'.span = [off |-> 0, len |-> Len(cache[c])]
                /\ Deref(c, res'.span) = cache[c]
           /\ res'.op = "size" => res'.val = Len(cache[c])
           /\ res'.op = "iterate" =>
                /\ Len(res'.vec) = Len(cache[c])
                /\ \A i \in 1 .. Len(cache[c]) : res'.vec[i] = cache[c][i]]_vars

\* C13 witness: a full iteration has visited three elements of a container
\* that computed some of them.
ObserversPureWitness ==
  /\ res.op = "iterate"
  /\ Len(res.vec) = 3
  /\ TotalCalls(res.c) >= 1
  /\ nxfer = 0

\* C14 (as claimed): move transfers ownership.  After a move construction
\* or move assignment from A to B, B holds the elements, the seeds and the
\* rule A held and A has size 0; and every operation on a moved-from
\* container is well defined: a fill loop running on it does not end the
\* process.
MoveLeavesValid ==
  [][/\ (res' # res /\ res'.op \in {"move", "move_assign"}) =>
          LET a == res'.c
              b == res'.to
          IN  /\ cache'[b] = cache[a]
              /\ rule'[b] = rule[a]
              /\ seeds'[b] = seeds[a]
              /\ Len(cache'[a]) = 0
     /\ (stack # <<>> /\ rule[Top.c] = "moved") => halted' = "no"]_vars

\* the index a completed operation r passed to ensure_calculated
TargetOf(r) == IF r.op = "slice" THEN SliceTarget(r.a, r.b) ELSE r.a

\* C15: fill order.  Every invocation of the formula of c happens inside a
\* fill loop of c, for the index that equals the current size (so within
\* one call the indices are s, s+1, ..., each appended before the next
\* invocation) and below the size the call needs, and its history ends with
\* the element appended last; and when a call that had to extend a cache of
\* size s through index n returns, it has made exactly n + 1 - s invocations
\* and size() = n + 1.
FillOrder ==
  [][/\ \A c \in Seqs : \A i \in DOMAIN calls[c] :
          (nxfer' = nxfer /\ calls'[c][i] # calls[c][i]) =>
            /\ calls'[c][i] = calls[c][i] + 1
            /\ stack # <<>> /\ Top.c = c
            /\ i = Len(cache[c])
            /\ i < Top.needed
            /\ \A j \in DOMAIN calls[c] \ {i} : calls'[c][j] = calls[c][j]
            /\ i >= 1 => inv'[c].history[i] = cache[c][i]
     /\ (res' # res /\ res'.kind = "ok" /\ TargetOf(res') < SizeMax
           /\ \/ res'.op \in AccessOps
              \/ res'.op = "slice" /\ res'.a < res'.b) =>
          LET c == res'.c
              n == TargetOf(res')
              s == Len(PreCache(c))
          IN  s <= n =>
                /\ SumCalls(calls'[c], Cardinality(DOMAIN calls'[c]) - 1)
                     - PreCalls(c) = n + 1 - s
                /\ Len(cache'[c]) = n + 1]_vars

\* C15 witness: operator[](2) has returned on a container that started
\* empty, after one invocation each for indices 0, 1 and 2.
FillOrderWitness ==
  /\ res.op = "index"
  /\ res.kind = "ok"
  /\ res.a = 2
  /\ seeds[res.c] = <<>>
  /\ \A i \in 0 .. 2 : calls[res.c][i] = 1
  /\ Len(cache[res.c]) = 3
  /\ nxfer = 0

\* the least power of two that is at least x
NextPowerOfTwo(x) ==
  CHOOSE p \in {Pow2(k) : k \in 0 .. IndexBits} :
    /\ p >= x
    /\ \A q \in {Pow2(k) : k \in 0 .. IndexBits} : q >= x => p <= q

\* the capacity the growth policy asks for, in the specification's words
RequestedCapacity(c, needed_size) ==
  LET m == Max(needed_size, c + (c \div 2))
  IN  IF m < 1024 THEN NextPowerOfTwo(m) ELSE m

\* C16: growth policy.  In the step that starts operator[](n) or
\* prefetch_up_to(n) on a container with capacity c, with needed_size
\* = n + 1: when needed_size > c the capacity becomes
\* max(needed_size, c + floor(c / 2)), rounded up to the next power of two
\* when that is below 1024 and unchanged when it is 1024 or more; when
\* needed_size <= c the capacity does not change.
GrowthPolicy ==
  [][/\ (cur.op = "none" /\ cur'.op \in AccessOps) =>
          LET c == cur'.c
              needed_size == cur'.a + 1
          IN  cap'[c] = IF needed_size > cap[c]
                        THEN RequestedCapacity(cap[c], needed_size)
                        ELSE cap[c]
     /\ (cur.op = "none" /\ cur'.op = "none" /\ res' # res
           /\ res'.op \in AccessOps /\ res'.a + 1 <= cap[res'.c]) =>
          cap'[res'.c] = cap[res'.c]]_vars

\* C16 witness: a full cache of 1024 elements has grown to capacity 1536,
\* which is not a power of two, and a capacity below 1024 was rounded
\* before.
GrowthPolicyWitness ==
  /\ cap["R"] = 1536
  /\ Len(cache["R"]) = 1025
  /\ res.op = "prefetch"
  /\ res.kind = "ok"
  /\ calls["R"][1024] = 1

\* C17: empty slice.  The step in which slice(a, a) completes, for any a
\* (also a > size()), returns an empty view, invokes no formula and leaves
\* every container's elements and capacity unchanged.
EmptySlice ==
  [][(res' # res /\ res'.op = "slice" /\ res'.a = res'.b) =>
       /\ res'.kind = "ok"
       /\ res'.span.len = 0
       /\ Deref(res'.c, res'.span) = <<>>
       /\ calls' = calls
       /\ cache' = cache
       /\ cap' = cap
       /\ stack = <<>>]_vars

\* C17 witness: slice(a, a) has returned with a beyond size().
EmptySliceWitness ==
  /\ res.op = "slice"
  /\ res.a = res.b
  /\ res.a > Len(cache[res.c])
  /\ res.kind = "ok"

\* rule r, computing the index of ctx, calls last() on an empty history or
\* operator[](i) with i >= n
ReadsOutOfRange(r, ctx) ==
  LET n == ctx.index_val
  IN  \/ r = "fib" /\ (Wrap(n - 1) >= n \/ Wrap(n - 2) >= n)
      \/ r = "last" /\ (n = 0 \/ Wrap(n - 2) >= n)
      \/ r = "sum" /\ Wrap(n - 1) >= n

\* C18 (as claimed): precondition violations are failures, not values.
\* slice(start, end) with start > end never starts to compute and never
\* returns; and an invocation in which the rule calls last() with n = 0 or
\* operator[](i) with i >= n ends the process with nothing appended.
PreconditionsFail ==
  [][/\ ~(cur'.op = "slice" /\ cur'.a > cur'.b)
     /\ ~(res'.op = "slice" /\ res'.a > res'.b)
     /\ \A c \in Seqs : \A i \in DOMAIN calls[c] :
          (calls'[c][i] # calls[c][i]
             /\ ReadsOutOfRange(rule[c], inv'[c])) =>
            halted' # "no" /\ cache' = cache]_vars

\* C18 (amended): in a build whose assert() is active, slice(start, end)
\* with start > end never starts to compute and never returns, a public
\* operation that fails before its fill loop aborts with elements,
\* capacities and invocation counts unchanged, and an invocation in which
\* the rule calls last() with n = 0 or operator[](i) with i >= n aborts
\* with nothing appended.
CheckedPreconditionsFail ==
  [][~ndebug =>
       /\ ~(cur'.op = "slice" /\ cur'.a > cur'.b)
       /\ ~(res'.op = "slice" /\ res'.a > res'.b)
       /\ (halted = "no" /\ halted' # "no" /\ stack = <<>>) =>
            /\ halted' = "abort"
            /\ cache' = cache
            /\ cap' = cap
            /\ calls' = calls
       /\ \A c \in Seqs : \A i \in DOMAIN calls[c] :
            (calls'[c][i] # calls[c][i]
               /\ ReadsOutOfRange(rule[c], inv'[c])) =>
              /\ halted' = "abort"
              /\ cache' = cache
              /\ cap' = cap]_vars

\* C18 witness: in a checked build, the rule that calls last() was invoked
\* for index 0 on an empty cache and the process aborted with nothing
\* appended.
CheckedPreconditionsWitness ==
  /\ ~ndebug
  /\ halted = "abort"
  /\ rule["F"] = "last"
  /\ calls["F"][0] = 1
  /\ inv["F"] = Context(0, <<>>)
  /\ cache["F"] = <<>>

\* container c has an ensure_calculated call in progress
InFill(c) == \E k \in 1 .. Len(stack) : stack[k].c = c

\* this step is the reservation step of an ensure_calculated call of c whose
\* needed size exceeds the capacity
ReservationStep(c) ==
  /\ ~InFill(c)
  /\ Len(stack') = Len(stack) + 1
  /\ stack'[Len(stack')].c = c
  /\ stack'[Len(stack')].needed > cap[c]

\* this step completes reserve() on c
ReserveStep(c) == res' # res /\ res'.op = "reserve" /\ res'.c = c

\* this step transfers ownership from or to c
TransferStep(c) == nxfer' # nxfer /\ c \in {res'.c, res'.to}

\* C19 (as claimed): capacity invariant.  size() <= capacity in every
\* state; the capacity of a container changes only in reserve() and in the
\* reservation step of an ensure_calculated call whose needed size exceeds
\* it, never while its fill loop runs; and every append fits in the capacity
\* reserved beforehand.
CapacityInvariant ==
  [][\A c \in Seqs :
       /\ Len(cache[c]) <= cap[c]
       /\ Len(cache'[c]) <= cap'[c]
       /\ cap'[c] # cap[c] => ReserveStep(c) \/ ReservationStep(c)
       /\ Len(cache'[c]) > Len(cache[c]) =>
            cap'[c] = cap[c] /\ Len(cache[c]) < cap[c]]_vars

\* C19 (amended): as claimed, except that a consuming snapshot(), a move
\* construction and a move assignment also change the capacity of the
\* containers they transfer from or to.
CapacityInvariantButTransfers ==
  [][\A c \in Seqs :
       /\ Len(cache[c]) <= cap[c]
       /\ Len(cache'[c]) <= cap'[c]
       /\ cap'[c] # cap[c] =>
            ReserveStep(c) \/ ReservationStep(c) \/ TransferStep(c)
       /\ (Len(cache'[c]) > Len(cache[c]) /\ ~TransferStep(c)) =>
            cap'[c] = cap[c] /\ Len(cache[c]) < cap[c]]_vars

\* C19 witness: a fill loop is running after its reservation step raised
\* the capacity; it has appended an element and has more to append, all
\* within that capacity.
CapacityInvariantWitness ==
  /\ stack # <<>>
  /\ cur.c = Top.c
  /\ cap[Top.c] > cur.pre_cap
  /\ Len(cache[Top.c]) > Len(cur.pre_cache)
  /\ Len(cache[Top.c]) < Top.needed
  /\ Top.needed <= cap[Top.c]

\* C20 (as claimed): cross-container dependency.  With sum reading fib, in
\* every state fib.size() >= sum.size(); a step that appends to fib leaves
\* sum's cache alone; and the formula of each of the two has been invoked
\* at most once per index.
CrossContainer ==
  [][(rule'["F"] = "fib" /\ rule'["S"] = "sum") =>
       /\ Len(cache'["F"]) >= Len(cache'["S"])
       /\ cache'["F"] # cache["F"] => cache'["S"] = cache["S"]
       /\ \A c \in {"F", "S"} : \A i \in DOMAIN calls'[c] :
            calls'[c][i] <= 1]_vars

\* C20 (amended): the same, as long as no ownership transfer (consuming
\* snapshot, move) has been made.
CrossContainerBeforeTransfer ==
  [][(rule'["F"] = "fib" /\ rule'["S"] = "sum" /\ nxfer' = 0) =>
       /\ Len(cache'["F"]) >= Len(cache'["S"])
       /\ cache'["F"] # cache["F"] => cache'["S"] = cache["S"]
       /\ \A c \in {"F", "S"} : \A i \in DOMAIN calls'[c] :
            calls'[c][i] <= 1]_vars

\* C20 witness: the invocation of sum for index 2 is waiting while the
\* nested fill loop of fib has appended fib[2].
CrossContainerWitness ==
  /\ Len(stack) = 2
  /\ stack[1].c = "S"
  /\ stack[1].pending
  /\ Top.c = "F"
  /\ inv["S"].index_val = 2
  /\ calls["F"][2] = 1
  /\ Len(cache["F"]) = 3
  /\ Len(cache["S"]) = 2
  /\ nxfer = 0

====
